---- MODULE Spec2Model ----
(***************************************************************************)
(* VynixMarketplace (src/unnamed/part_000, Solidity part, lines 59-446)    *)
(* together with the VynixCard registry it trades (SE2NFT.sol).            *)
(*                                                                         *)
(* One action per external entry point.  A transaction is atomic: either   *)
(* every require passes and every external call returns, and the writes    *)
(* are committed, or the transaction reverts and nothing changes.  The     *)
(* code of a handler is followed                                           *)
(* statement by statement on a record of the chain state (Cur), so that    *)
(* the order of writes and external calls is the order of the source.      *)
(* The recipient of an external call (a funds transfer, or the             *)
(* onERC721Received hook of a safe transfer) is arbitrary code: it may     *)
(* accept or revert, and before answering it may call back into the        *)
(* marketplace (a nested call).                                            *)
(***************************************************************************)
EXTENDS Integers, Sequences, FiniteSets, TLC

\* ---------------------------------------------------------------- bounds
MaxRecords == 1    \* listings, auctions and offers ever created, together
MaxTime == 1
MaxListed == 3     \* records in the mappings read by the view functions

\* ------------------------------------------------------ program constants
HOUR == 1
MaxFee == 1000
BasisPoints == 10000
InitialFee == 250

\* ------------------------------------------------------------ input sets
Owner == "admin"
NoAddr == "0x0"
Addresses == {"admin", "ann"}
Tokens == {0}
Amounts == {0, 100, 1000}
FeeRates == {1000, 1001}
Durations == {0, 1}

NonReentrantOps ==
  {"listCard", "buyCard", "cancelListing", "createAuction", "placeBid",
   "endAuction", "makeOffer", "acceptOffer", "cancelOffer"}
AdminOps == {"pause", "unpause", "setMarketplaceFee", "withdrawFunds"}
NestedOps == {"buyCard", "cancelListing"} \cup AdminOps

\* What the recipient of an external call does: an optional nested call
\* into the marketplace, then its answer.
Callbacks ==
  {[reply |-> r, nested |-> "none", arg |-> 0] : r \in {"accept", "reject"}}
  \cup {[reply |-> "accept", nested |-> n, arg |-> 1] : n \in NestedOps \ {"setMarketplaceFee"}}
  \cup {[reply |-> "accept", nested |-> "setMarketplaceFee", arg |-> MaxFee]}
Plain == [reply |-> "accept", nested |-> "none", arg |-> 0]

VARIABLES
  now,                       \* block.timestamp, in hours
  paused,
  marketplaceFeePercentage,
  listings, auctions, offers,  \* the three mappings, ids 1..Len
  totalVolume, totalSales,
  balance,                   \* address(this).balance
  ownerOf,                   \* registry: token -> owner
  tokenApproved,             \* registry: tokens the marketplace is approved for
  settled,                   \* history: the records settled by a sale
  feesAccrued,               \* history: fees retained since the last withdrawal
  view,                      \* the last view call and the array it returned
  stale                      \* history: listings whose seller was seen not
                             \* to own the listed asset

vars == <<now, paused, marketplaceFeePercentage, listings, auctions, offers,
          totalVolume, totalSales, balance, ownerOf, tokenApproved,
          settled, feesAccrued, view, stale>>

\* the durable state a transaction may change
core == <<paused, marketplaceFeePercentage, listings, auctions, offers,
          totalVolume, totalSales, balance, ownerOf, tokenApproved>>

nextListingId == Len(listings) + 1
nextAuctionId == Len(auctions) + 1
nextOfferId == Len(offers) + 1

ZeroListing == [tokenId |-> 0, seller |-> NoAddr, price |-> 0, active |-> FALSE]
ZeroAuction ==
  [tokenId |-> 0, seller |-> NoAddr, startingPrice |-> 0, currentBid |-> 0,
   highestBidder |-> NoAddr, endTime |-> 0, active |-> FALSE]
ZeroOffer ==
  [tokenId |-> 0, buyer |-> NoAddr, amount |-> 0, expiration |-> 0,
   active |-> FALSE]

\* a mapping read: an id never written reads as the zero struct
ListingAt(s, id) == IF id \in 1..Len(s.listings) THEN s.listings[id] ELSE ZeroListing
AuctionAt(s, id) == IF id \in 1..Len(s.auctions) THEN s.auctions[id] ELSE ZeroAuction
OfferAt(s, id) == IF id \in 1..Len(s.offers) THEN s.offers[id] ELSE ZeroOffer

\* no view function has been called
NoView == [fn |-> "none", startIndex |-> 0, count |-> 0, ids |-> <<>>]

\* the chain state at the start of a transaction
Cur ==
  [paused |-> paused, marketplaceFeePercentage |-> marketplaceFeePercentage,
   listings |-> listings, auctions |-> auctions, offers |-> offers,
   totalVolume |-> totalVolume, totalSales |-> totalSales,
   balance |-> balance, ownerOf |-> ownerOf, tokenApproved |-> tokenApproved,
   ok |-> TRUE, err |-> "", event |-> "", amount |-> 0, fee |-> 0,
   proceeds |-> 0, sent |-> <<>>, nested |-> <<>>, trace |-> <<>>]

\* the chain state of s, without the results of the call
StateOf(s) ==
  <<s.paused, s.marketplaceFeePercentage, s.listings, s.auctions, s.offers,
    s.totalVolume, s.totalSales, s.balance, s.ownerOf, s.tokenApproved>>

Withdrew(s) == \E i \in 1..Len(s.sent) : s.sent[i][3] = "withdrawal"

\* the listings whose stored seller is not the owner of the listed asset
NotOwned(ls, owners) ==
  {id \in 1..Len(ls) : owners[ls[id].tokenId] # ls[id].seller}

\* the transaction ends with chain state s (the state it started from
\* when it reverted); `sale` is the record it settled, if any
Commit(s, sale) ==
  /\ paused' = s.paused
  /\ marketplaceFeePercentage' = s.marketplaceFeePercentage
  /\ listings' = s.listings
  /\ auctions' = s.auctions
  /\ offers' = s.offers
  /\ totalVolume' = s.totalVolume
  /\ totalSales' = s.totalSales
  /\ balance' = s.balance
  /\ ownerOf' = s.ownerOf
  /\ tokenApproved' = s.tokenApproved
  /\ settled' = IF s.ok THEN settled \cup sale ELSE settled
  /\ feesAccrued' = IF ~s.ok THEN feesAccrued
                    ELSE IF Withdrew(s) THEN 0 ELSE feesAccrued + s.fee
  /\ stale' = IF s.ok THEN stale \cup NotOwned(s.listings, s.ownerOf)
               ELSE stale
  /\ UNCHANGED <<now, view>>

\* msg.value reaches the marketplace before the body runs
Credit(s, value) == [s EXCEPT !.balance = @ + value]

\* a write to the marketplace's own storage, noted in the trace
Wrote(s, what) == [s EXCEPT !.trace = Append(@, <<"write", what>>)]

\* a require fails: the call reverts to the state s0 it started from
Fail(s0, err) == [s0 EXCEPT !.ok = FALSE, !.err = err]

Emit(s, event) == [s EXCEPT !.event = event]

\* mutant: the fee rounded up
Fee_RoundUp(amount, rate) == (amount * rate + BasisPoints - 1) \div BasisPoints

Fee(amount, rate) == (amount * rate) \div BasisPoints

\* mutant: the sale is not counted
UpdateStats_NoCount(s, amount) ==
  Wrote([s EXCEPT !.totalVolume = @ + amount], "totalVolume")

\* totalVolume += amount; totalSales++
UpdateStats(s, amount) ==
  Wrote(Wrote([s EXCEPT !.totalVolume = @ + amount, !.totalSales = @ + 1],
              "totalVolume"), "totalSales")

\* registry: the marketplace may move the token (ERC721 _isAuthorized)
Authorized(s, tokenId) == tokenId \in s.tokenApproved

\* ------------------------------------------------------ admin functions
pause(s, caller) ==
  IF caller # Owner THEN Fail(s, "OwnableUnauthorizedAccount")
  ELSE Wrote([s EXCEPT !.paused = TRUE], "paused")

unpause(s, caller) ==
  IF caller # Owner THEN Fail(s, "OwnableUnauthorizedAccount")
  ELSE Wrote([s EXCEPT !.paused = FALSE], "paused")

\* mutant: the require on the rate left out
setMarketplaceFee_NoLimit(s, caller, feePercentage) ==
  IF caller # Owner THEN Fail(s, "OwnableUnauthorizedAccount")
  ELSE Wrote([s EXCEPT !.marketplaceFeePercentage = feePercentage], "marketplaceFeePercentage")

setMarketplaceFee(s, caller, feePercentage) ==
  IF caller # Owner THEN Fail(s, "OwnableUnauthorizedAccount")
  ELSE IF ~(feePercentage <= MaxFee) THEN Fail(s, "Fee cannot exceed 10%")
  ELSE Wrote([s EXCEPT !.marketplaceFeePercentage = feePercentage], "marketplaceFeePercentage")

\* mutant: the flag flipped instead of cleared, with no require on it
cancelListing_Toggle(s, caller, listingId) ==
  LET listing == ListingAt(s, listingId) IN
  IF listingId \notin 1..Len(s.listings) THEN Fail(s, "Listing is not active")
  ELSE IF ~(listing.seller = caller \/ Owner = caller)
    THEN Fail(s, "Not authorized to cancel")
  ELSE Emit(Wrote([s EXCEPT !.listings[listingId].active = ~@],
                  "listing.active"), "ListingCancelled")

\* mutant: the require on listing.active left out
cancelListing_NoActiveCheck(s, caller, listingId) ==
  LET listing == ListingAt(s, listingId) IN
  IF listingId \notin 1..Len(s.listings) THEN Fail(s, "Listing is not active")
  ELSE IF ~(listing.seller = caller \/ Owner = caller)
    THEN Fail(s, "Not authorized to cancel")
  ELSE Emit(Wrote([s EXCEPT !.listings[listingId].active = FALSE],
                  "listing.active"), "ListingCancelled")

cancelListing(s, caller, listingId) ==
  LET listing == ListingAt(s, listingId) IN
  IF ~listing.active THEN Fail(s, "Listing is not active")
  ELSE IF ~(listing.seller = caller \/ Owner = caller)
    THEN Fail(s, "Not authorized to cancel")
  ELSE Emit(Wrote([s EXCEPT !.listings[listingId].active = FALSE],
                  "listing.active"), "ListingCancelled")

\* value moves from the marketplace to `to`; FALSE when it cannot
CanSend(s, amount) == s.balance >= amount
Send(s, to, amount, kind) ==
  [s EXCEPT !.balance = @ - amount,
            !.sent = Append(@, <<to, amount, kind>>),
            !.trace = Append(@, <<"call", to>>)]

\* withdrawFunds as a nested call: the owner's code answers the inner
\* transfer by accepting it
withdrawInner(s, caller) ==
  IF caller # Owner THEN Fail(s, "OwnableUnauthorizedAccount")
  ELSE IF ~(s.balance > 0) THEN Fail(s, "No funds to withdraw")
  ELSE Send(s, Owner, s.balance, "withdrawal")

\* the outcome of a nested call is noted in `nested`; the state of a
\* failed nested call is the state before it
Noted(s, r, op, who) ==
  [(IF r.ok THEN r ELSE s) EXCEPT
     !.ok = s.ok, !.err = s.err, !.event = s.event,
     !.nested = Append(s.nested, <<op, who, IF r.ok THEN "ok" ELSE r.err>>)]

\* the recipient `who` of an external call calls back into the
\* marketplace; `guarded` when the running entry point is nonReentrant
NestedCall(s, who, cb, guarded) ==
  IF cb.nested = "none" THEN s
  ELSE IF cb.nested \in NonReentrantOps /\ guarded
    THEN Noted(s, Fail(s, "ReentrancyGuardReentrantCall"), cb.nested, who)
  ELSE IF cb.nested = "pause" THEN Noted(s, pause(s, who), cb.nested, who)
  ELSE IF cb.nested = "unpause" THEN Noted(s, unpause(s, who), cb.nested, who)
  ELSE IF cb.nested = "setMarketplaceFee"
    THEN Noted(s, setMarketplaceFee(s, who, cb.arg), cb.nested, who)
  ELSE IF cb.nested = "withdrawFunds"
    THEN Noted(s, withdrawInner(s, who), cb.nested, who)
  ELSE IF cb.nested = "cancelListing"
    THEN Noted(s, cancelListing(s, who, cb.arg), cb.nested, who)
  ELSE Noted(s, Fail(s, "not modelled"), cb.nested, who)

\* (bool success, ) = to.call{value: amount}("")
Pay(s, to, amount, kind, cb, guarded) ==
  IF ~CanSend(s, amount) \/ cb.reply = "reject" THEN [s EXCEPT !.ok = FALSE]
  ELSE NestedCall(Send(s, to, amount, kind), to, cb, guarded)

\* mutant: the registry is not called, the token stays where it is
SafeTransferFrom_Skipped(s, from, to, tokenId, cb, guarded) == s

\* vynixCardContract.safeTransferFrom(from, to, tokenId), called by the
\* marketplace; `to` answers in onERC721Received
SafeTransferFrom(s, from, to, tokenId, cb, guarded) ==
  IF ~Authorized(s, tokenId) \/ s.ownerOf[tokenId] # from \/ cb.reply = "reject"
    THEN [s EXCEPT !.ok = FALSE]
  ELSE NestedCall(
         [s EXCEPT !.ownerOf[tokenId] = to,
                   !.tokenApproved = @ \ {tokenId},
                   !.trace = Append(@, <<"call", "registry">>)],
         to, cb, guarded)

withdrawFunds(s0, caller, cbFunds) ==
  LET bal == s0.balance
      s1 == Pay(s0, Owner, bal, "withdrawal", cbFunds, FALSE)
  IN IF caller # Owner THEN Fail(s0, "OwnableUnauthorizedAccount")
     ELSE IF ~(bal > 0) THEN Fail(s0, "No funds to withdraw")
     ELSE IF ~s1.ok THEN Fail(s0, "Withdrawal failed")
     ELSE [s1 EXCEPT !.amount = bal]

\* ---------------------------------------------------- listing functions
\* getApproved(tokenId) == address(this) || isApprovedForAll(holder, this);
\* no holder uses setApprovalForAll
Approved(s, tokenId, holder) == tokenId \in s.tokenApproved

listCard(s, caller, tokenId, price) ==
  IF s.paused THEN Fail(s, "Marketplace is paused")
  ELSE IF ~(price > 0) THEN Fail(s, "Price must be greater than 0")
  ELSE IF s.ownerOf[tokenId] # caller THEN Fail(s, "Not the card owner")
  ELSE IF ~Approved(s, tokenId, caller)
    THEN Fail(s, "Marketplace not approved to transfer card")
  ELSE Emit(Wrote([s EXCEPT !.listings = Append(@,
                      [tokenId |-> tokenId, seller |-> caller,
                       price |-> price, active |-> TRUE])],
                  "listings"), "CardListed")

buyCard(s0, caller, listingId, value, cbAsset, cbFunds) ==
  LET s == Credit(s0, value)
      listing == ListingAt(s, listingId)
      s1 == Wrote([s EXCEPT !.listings[listingId].active = FALSE],
                  "listing.active")
      fee == Fee(value, s1.marketplaceFeePercentage)
      sellerProceeds == value - fee
      s2 == SafeTransferFrom(s1, listing.seller, caller, listing.tokenId,
                             cbAsset, TRUE)
      s3 == Pay(s2, listing.seller, sellerProceeds, "payout", cbFunds, TRUE)
      s4 == UpdateStats(s3, value)
  IN IF s.paused THEN Fail(s0, "Marketplace is paused")
     ELSE IF ~listing.active THEN Fail(s0, "Listing is not active")
     ELSE IF value # listing.price THEN Fail(s0, "Incorrect payment amount")
     ELSE IF s.ownerOf[listing.tokenId] # listing.seller
       THEN Fail(s0, "Seller no longer owns this card")
     ELSE IF ~s2.ok THEN Fail(s0, "ERC721 transfer reverted")
     ELSE IF ~s3.ok THEN Fail(s0, "Failed to send payment to seller")
     ELSE [Emit(s4, "CardSold") EXCEPT
             !.amount = value, !.fee = fee, !.proceeds = sellerProceeds]

\* ---------------------------------------------------- auction functions
\* mutant: the require on the starting price left out
createAuction_NoPriceCheck(s, caller, tokenId, startingPrice, duration) ==
  IF s.paused THEN Fail(s, "Marketplace is paused")
  ELSE IF ~(duration >= HOUR) THEN Fail(s, "Duration too short")
  ELSE IF s.ownerOf[tokenId] # caller THEN Fail(s, "Not the card owner")
  ELSE IF ~Approved(s, tokenId, caller)
    THEN Fail(s, "Marketplace not approved to transfer card")
  ELSE Emit(Wrote([s EXCEPT !.auctions = Append(@,
                      [tokenId |-> tokenId, seller |-> caller,
                       startingPrice |-> startingPrice, currentBid |-> 0,
                       highestBidder |-> NoAddr, endTime |-> now + duration,
                       active |-> TRUE])],
                  "auctions"), "AuctionCreated")

createAuction(s, caller, tokenId, startingPrice, duration) ==
  IF s.paused THEN Fail(s, "Marketplace is paused")
  ELSE IF ~(startingPrice > 0)
    THEN Fail(s, "Starting price must be greater than 0")
  ELSE IF ~(duration >= HOUR) THEN Fail(s, "Duration too short")
  ELSE IF s.ownerOf[tokenId] # caller THEN Fail(s, "Not the card owner")
  ELSE IF ~Approved(s, tokenId, caller)
    THEN Fail(s, "Marketplace not approved to transfer card")
  ELSE Emit(Wrote([s EXCEPT !.auctions = Append(@,
                      [tokenId |-> tokenId, seller |-> caller,
                       startingPrice |-> startingPrice, currentBid |-> 0,
                       highestBidder |-> NoAddr, endTime |-> now + duration,
                       active |-> TRUE])],
                  "auctions"), "AuctionCreated")

\* mutant: a bid equal to the current bid is accepted
BidHighEnough_NotStrict(auction, value) ==
  IF auction.currentBid = 0 THEN value >= auction.startingPrice
  ELSE value >= auction.currentBid

\* the bid acceptance rule
BidHighEnough(auction, value) ==
  IF auction.currentBid = 0 THEN value >= auction.startingPrice
  ELSE value > auction.currentBid

\* mutant: the success of the refund is not required
RefundPrevious_Unchecked(s, auction, cbRefund) ==
  [Pay(s, auction.highestBidder, auction.currentBid, "refund", cbRefund, TRUE)
     EXCEPT !.ok = TRUE]

\* the refund of the previous highest bidder, and its success
RefundPrevious(s, auction, cbRefund) ==
  Pay(s, auction.highestBidder, auction.currentBid, "refund", cbRefund, TRUE)

\* mutant: the seller's ownership is not looked up again
placeBid_NoOwnerCheck(s0, caller, auctionId, value, cbRefund) ==
  LET s == Credit(s0, value)
      auction == AuctionAt(s, auctionId)
      s1 == IF auction.currentBid = 0 THEN s
            ELSE RefundPrevious(s, auction, cbRefund)
      s2 == Wrote(Wrote([s1 EXCEPT !.auctions[auctionId].currentBid = value,
                                   !.auctions[auctionId].highestBidder = caller],
                        "auction.currentBid"), "auction.highestBidder")
  IN IF s.paused THEN Fail(s0, "Marketplace is paused")
     ELSE IF ~auction.active THEN Fail(s0, "Auction is not active")
     ELSE IF ~(now < auction.endTime) THEN Fail(s0, "Auction has ended")
     ELSE IF caller = auction.seller
       THEN Fail(s0, "Cannot bid on your own auction")
     ELSE IF ~BidHighEnough(auction, value)
       THEN Fail(s0, IF auction.currentBid = 0
                       THEN "Bid must be at least the starting price"
                       ELSE "Bid must be higher than current bid")
     ELSE IF ~s1.ok THEN Fail(s0, "Failed to refund previous bidder")
     ELSE [Emit(s2, "BidPlaced") EXCEPT !.amount = value]

placeBid(s0, caller, auctionId, value, cbRefund) ==
  LET s == Credit(s0, value)
      auction == AuctionAt(s, auctionId)
      s1 == IF auction.currentBid = 0 THEN s
            ELSE RefundPrevious(s, auction, cbRefund)
      s2 == Wrote(Wrote([s1 EXCEPT !.auctions[auctionId].currentBid = value,
                                   !.auctions[auctionId].highestBidder = caller],
                        "auction.currentBid"), "auction.highestBidder")
  IN IF s.paused THEN Fail(s0, "Marketplace is paused")
     ELSE IF ~auction.active THEN Fail(s0, "Auction is not active")
     ELSE IF ~(now < auction.endTime) THEN Fail(s0, "Auction has ended")
     ELSE IF caller = auction.seller
       THEN Fail(s0, "Cannot bid on your own auction")
     ELSE IF s.ownerOf[auction.tokenId] # auction.seller
       THEN Fail(s0, "Seller no longer owns this card")
     ELSE IF ~BidHighEnough(auction, value)
       THEN Fail(s0, IF auction.currentBid = 0
                       THEN "Bid must be at least the starting price"
                       ELSE "Bid must be higher than current bid")
     ELSE IF ~s1.ok THEN Fail(s0, "Failed to refund previous bidder")
     ELSE [Emit(s2, "BidPlaced") EXCEPT !.amount = value]

\* mutant: the require on the end time and the admin left out
endAuction_AnyTime(s0, caller, auctionId, cbAsset, cbFunds) ==
  LET auction == AuctionAt(s0, auctionId)
      s1 == Wrote([s0 EXCEPT !.auctions[auctionId].active = FALSE],
                  "auction.active")
      fee == Fee(auction.currentBid, s1.marketplaceFeePercentage)
      sellerProceeds == auction.currentBid - fee
      s2 == SafeTransferFrom(s1, auction.seller, auction.highestBidder,
                             auction.tokenId, cbAsset, TRUE)
      s3 == Pay(s2, auction.seller, sellerProceeds, "payout", cbFunds, TRUE)
      s4 == UpdateStats(s3, auction.currentBid)
  IN IF ~auction.active THEN Fail(s0, "Auction is not active")
     ELSE IF auction.highestBidder = NoAddr THEN Emit(s1, "AuctionEnded")
     ELSE IF ~s2.ok THEN Fail(s0, "ERC721 transfer reverted")
     ELSE IF ~s3.ok THEN Fail(s0, "Failed to send payment to seller")
     ELSE [Emit(s4, "AuctionEnded") EXCEPT
             !.amount = auction.currentBid, !.fee = fee,
             !.proceeds = sellerProceeds]

endAuction(s0, caller, auctionId, cbAsset, cbFunds) ==
  LET auction == AuctionAt(s0, auctionId)
      s1 == Wrote([s0 EXCEPT !.auctions[auctionId].active = FALSE],
                  "auction.active")
      fee == Fee(auction.currentBid, s1.marketplaceFeePercentage)
      sellerProceeds == auction.currentBid - fee
      s2 == SafeTransferFrom(s1, auction.seller, auction.highestBidder,
                             auction.tokenId, cbAsset, TRUE)
      s3 == Pay(s2, auction.seller, sellerProceeds, "payout", cbFunds, TRUE)
      s4 == UpdateStats(s3, auction.currentBid)
  IN IF ~auction.active THEN Fail(s0, "Auction is not active")
     ELSE IF ~(now >= auction.endTime \/ caller = Owner)
       THEN Fail(s0, "Auction not yet ended or not admin")
     ELSE IF auction.highestBidder = NoAddr THEN Emit(s1, "AuctionEnded")
     ELSE IF ~s2.ok THEN Fail(s0, "ERC721 transfer reverted")
     ELSE IF ~s3.ok THEN Fail(s0, "Failed to send payment to seller")
     ELSE [Emit(s4, "AuctionEnded") EXCEPT
             !.amount = auction.currentBid, !.fee = fee,
             !.proceeds = sellerProceeds]

\* ------------------------------------------------------ offer functions
makeOffer(s0, caller, tokenId, value, duration) ==
  LET s == Credit(s0, value) IN
  IF s.paused THEN Fail(s0, "Marketplace is paused")
  ELSE IF ~(value > 0) THEN Fail(s0, "Offer amount must be greater than 0")
  ELSE IF ~(duration >= HOUR) THEN Fail(s0, "Duration too short")
  ELSE IF s.ownerOf[tokenId] = caller
    THEN Fail(s0, "Cannot make offer on your own card")
  ELSE Emit(Wrote([s EXCEPT !.offers = Append(@,
                      [tokenId |-> tokenId, buyer |-> caller,
                       amount |-> value, expiration |-> now + duration,
                       active |-> TRUE])],
                  "offers"), "OfferCreated")

acceptOffer(s0, caller, offerId, cbAsset, cbFunds) ==
  LET offer == OfferAt(s0, offerId)
      s1 == Wrote([s0 EXCEPT !.offers[offerId].active = FALSE], "offer.active")
      fee == Fee(offer.amount, s1.marketplaceFeePercentage)
      sellerProceeds == offer.amount - fee
      s2 == SafeTransferFrom(s1, caller, offer.buyer, offer.tokenId,
                             cbAsset, TRUE)
      s3 == Pay(s2, caller, sellerProceeds, "payout", cbFunds, TRUE)
      s4 == UpdateStats(s3, offer.amount)
  IN IF s0.paused THEN Fail(s0, "Marketplace is paused")
     ELSE IF ~offer.active THEN Fail(s0, "Offer is not active")
     ELSE IF ~(now < offer.expiration) THEN Fail(s0, "Offer has expired")
     ELSE IF s0.ownerOf[offer.tokenId] # caller
       THEN Fail(s0, "Not the card owner")
     ELSE IF ~Approved(s1, offer.tokenId, caller)
       THEN Fail(s0, "Marketplace not approved to transfer card")
     ELSE IF ~s2.ok THEN Fail(s0, "ERC721 transfer reverted")
     ELSE IF ~s3.ok THEN Fail(s0, "Failed to send payment to seller")
     ELSE [Emit(s4, "OfferAccepted") EXCEPT
             !.amount = offer.amount, !.fee = fee,
             !.proceeds = sellerProceeds]

\* mutant: the marketplace fee is deducted from the refund
cancelOffer_FeeDeducted(s0, caller, offerId, cbFunds) ==
  LET offer == OfferAt(s0, offerId)
      s1 == Wrote([s0 EXCEPT !.offers[offerId].active = FALSE], "offer.active")
      s2 == Pay(s1, offer.buyer,
                offer.amount - Fee(offer.amount, s1.marketplaceFeePercentage),
                "refund", cbFunds, TRUE)
  IN IF ~offer.active THEN Fail(s0, "Offer is not active")
     ELSE IF offer.buyer # caller THEN Fail(s0, "Not the offer creator")
     ELSE IF ~s2.ok THEN Fail(s0, "Failed to refund buyer")
     ELSE [Emit(s2, "OfferCancelled") EXCEPT !.amount = offer.amount]

\* mutant: cancelOffer made notPaused
cancelOffer_NotPaused(s0, caller, offerId, cbFunds) ==
  LET offer == OfferAt(s0, offerId)
      s1 == Wrote([s0 EXCEPT !.offers[offerId].active = FALSE], "offer.active")
      s2 == Pay(s1, offer.buyer, offer.amount, "refund", cbFunds, TRUE)
  IN IF s0.paused THEN Fail(s0, "Marketplace is paused")
     ELSE IF ~offer.active THEN Fail(s0, "Offer is not active")
     ELSE IF offer.buyer # caller THEN Fail(s0, "Not the offer creator")
     ELSE IF ~s2.ok THEN Fail(s0, "Failed to refund buyer")
     ELSE [Emit(s2, "OfferCancelled") EXCEPT !.amount = offer.amount]

\* mutant: a failed refund returns without reverting
cancelOffer_NoRollback(s0, caller, offerId, cbFunds) ==
  LET offer == OfferAt(s0, offerId)
      s1 == Wrote([s0 EXCEPT !.offers[offerId].active = FALSE], "offer.active")
      s2 == Pay(s1, offer.buyer, offer.amount, "refund", cbFunds, TRUE)
  IN IF ~offer.active THEN Fail(s0, "Offer is not active")
     ELSE IF offer.buyer # caller THEN Fail(s0, "Not the offer creator")
     ELSE IF ~s2.ok THEN Fail(s1, "Failed to refund buyer")
     ELSE [Emit(s2, "OfferCancelled") EXCEPT !.amount = offer.amount]

cancelOffer(s0, caller, offerId, cbFunds) ==
  LET offer == OfferAt(s0, offerId)
      s1 == Wrote([s0 EXCEPT !.offers[offerId].active = FALSE], "offer.active")
      s2 == Pay(s1, offer.buyer, offer.amount, "refund", cbFunds, TRUE)
  IN IF ~offer.active THEN Fail(s0, "Offer is not active")
     ELSE IF offer.buyer # caller THEN Fail(s0, "Not the offer creator")
     ELSE IF ~s2.ok THEN Fail(s0, "Failed to refund buyer")
     ELSE [Emit(s2, "OfferCancelled") EXCEPT !.amount = offer.amount]

\* ------------------------------------------------------- view functions
\* new uint256[](count): an array of count zeros
NewArray(count) == [k \in 1..count |-> 0]

\* the loop of getActiveListings and getActiveAuctions from index i on:
\* matches[i] is the condition of the if on record i
RECURSIVE ActiveLoop(_, _, _, _, _, _, _)
ActiveLoop(matches, startIndex, count, i, currentIndex, resultIndex, ids) ==
  IF ~(i <= Len(matches) /\ resultIndex < count)
    THEN [ids |-> ids, resultIndex |-> resultIndex]
  ELSE IF ~matches[i]
    THEN ActiveLoop(matches, startIndex, count, i + 1, currentIndex,
                    resultIndex, ids)
  ELSE IF currentIndex >= startIndex
    THEN ActiveLoop(matches, startIndex, count, i + 1, currentIndex + 1,
                    resultIndex + 1, [ids EXCEPT ![resultIndex + 1] = i])
  ELSE ActiveLoop(matches, startIndex, count, i + 1, currentIndex + 1,
                  resultIndex, ids)

\* mutant: the array is returned with the length it was allocated with
Resize_Skipped(ids, resultIndex) == ids

\* assembly { mstore(ids, resultIndex) }
Resize(ids, resultIndex) == SubSeq(ids, 1, resultIndex)

getActiveListings(s, startIndex, count) ==
  LET totalListings == (Len(s.listings) + 1) - 1
      end == ActiveLoop([i \in 1..totalListings |-> s.listings[i].active],
                        startIndex, count, 1, 0, 0, NewArray(count))
  IN Resize(end.ids, end.resultIndex)

getActiveAuctions(s, startIndex, count) ==
  LET totalAuctions == (Len(s.auctions) + 1) - 1
      end == ActiveLoop([i \in 1..totalAuctions |->
                           s.auctions[i].active /\ now < s.auctions[i].endTime],
                        startIndex, count, 1, 0, 0, NewArray(count))
  IN Resize(end.ids, end.resultIndex)

\* ---------------------------------------------------------- transactions
\* A reverted transaction leaves every variable as it was, so only the
\* runs that succeed are steps of the model.  The inputs of
\* an entry point: the recipients' behaviours are enumerated only for the
\* arguments that succeed when every recipient simply accepts; a nested
\* call never adds to the marketplace's balance nor grants a registry
\* approval, so the other arguments revert whatever the recipients do.
Reject == [reply |-> "reject", nested |-> "none", arg |-> 0]
WithdrawCallbacks == {c \in Callbacks : c.nested # "buyCard"}

BuyCardInputs ==
  UNION {IF buyCard(Cur, caller, id, value, Plain, Plain).ok
           THEN {<<caller, id, value, cbAsset, cbFunds>> :
                   cbAsset \in Callbacks, cbFunds \in Callbacks}
           ELSE {<<caller, id, value, Plain, Plain>>} :
         caller \in Addresses, id \in 1..nextListingId, value \in Amounts}

PlaceBidInputs ==
  UNION {IF placeBid(Cur, caller, id, value, Plain).ok
           THEN {<<caller, id, value, cb>> : cb \in Callbacks}
           ELSE {<<caller, id, value, Plain>>} :
         caller \in Addresses, id \in 1..nextAuctionId, value \in Amounts}

EndAuctionInputs ==
  UNION {IF endAuction(Cur, caller, id, Plain, Plain).ok
           THEN {<<caller, id, cbAsset, cbFunds>> :
                   cbAsset \in Callbacks, cbFunds \in Callbacks}
           ELSE {<<caller, id, Plain, Plain>>} :
         caller \in Addresses, id \in 1..nextAuctionId}

AcceptOfferInputs ==
  UNION {IF acceptOffer(Cur, caller, id, Plain, Plain).ok
           THEN {<<caller, id, cbAsset, cbFunds>> :
                   cbAsset \in Callbacks, cbFunds \in Callbacks}
           ELSE {<<caller, id, Plain, Plain>>} :
         caller \in Addresses, id \in 1..nextOfferId}

CancelOfferInputs ==
  UNION {IF cancelOffer(Cur, caller, id, Plain).ok
           THEN {<<caller, id, cb>> : cb \in Callbacks}
           ELSE {<<caller, id, Plain>>} :
         caller \in Addresses, id \in 1..nextOfferId}

WithdrawFundsInputs ==
  UNION {IF withdrawFunds(Cur, caller, Plain).ok
           THEN {<<caller, cb>> : cb \in WithdrawCallbacks}
           ELSE {<<caller, Plain>>} :
         caller \in Addresses}

\* the inputs left out revert: a run that succeeds with some behaviour of
\* the recipients succeeds when they simply accept
InputsComplete ==
  /\ \A c \in Addresses, id \in 1..nextListingId, v \in Amounts,
        cb1 \in Callbacks, cb2 \in Callbacks :
       buyCard(Cur, c, id, v, cb1, cb2).ok => buyCard(Cur, c, id, v, Plain, Plain).ok
  /\ \A c \in Addresses, id \in 1..nextAuctionId, v \in Amounts, cb \in Callbacks :
       placeBid(Cur, c, id, v, cb).ok => placeBid(Cur, c, id, v, Plain).ok
  /\ \A c \in Addresses, id \in 1..nextAuctionId,
        cb1 \in Callbacks, cb2 \in Callbacks :
       endAuction(Cur, c, id, cb1, cb2).ok => endAuction(Cur, c, id, Plain, Plain).ok
  /\ \A c \in Addresses, id \in 1..nextOfferId,
        cb1 \in Callbacks, cb2 \in Callbacks :
       acceptOffer(Cur, c, id, cb1, cb2).ok => acceptOffer(Cur, c, id, Plain, Plain).ok
  /\ \A c \in Addresses, id \in 1..nextOfferId, cb \in Callbacks :
       cancelOffer(Cur, c, id, cb).ok => cancelOffer(Cur, c, id, Plain).ok
  /\ \A c \in Addresses, cb \in WithdrawCallbacks :
       withdrawFunds(Cur, c, cb).ok => withdrawFunds(Cur, c, Plain).ok

Tx(s) == s.ok /\ Commit(s, {})
TxSale(s, kind, id) ==
  s.ok /\ Commit(s, IF s.proceeds > 0 THEN {<<kind, id>>} ELSE {})

TxPause == \E caller \in Addresses : Tx(pause(Cur, caller))

TxUnpause == \E caller \in Addresses : Tx(unpause(Cur, caller))

TxSetMarketplaceFee ==
  \E caller \in Addresses, rate \in FeeRates :
    Tx(setMarketplaceFee(Cur, caller, rate))

TxWithdrawFunds ==
  \E x \in WithdrawFundsInputs : Tx(withdrawFunds(Cur, x[1], x[2]))

TxListCard ==
  /\ Len(listings) + Len(auctions) + Len(offers) < MaxRecords
  /\ \E caller \in Addresses, tokenId \in Tokens, price \in Amounts :
       Tx(listCard(Cur, caller, tokenId, price))

TxBuyCard ==
  \E x \in BuyCardInputs :
    TxSale(buyCard(Cur, x[1], x[2], x[3], x[4], x[5]), "listing", x[2])

TxCancelListing ==
  \E caller \in Addresses, listingId \in 1..nextListingId :
    Tx(cancelListing(Cur, caller, listingId))

TxCreateAuction ==
  /\ Len(listings) + Len(auctions) + Len(offers) < MaxRecords
  /\ \E caller \in Addresses, tokenId \in Tokens, startingPrice \in Amounts,
        duration \in Durations :
       Tx(createAuction(Cur, caller, tokenId, startingPrice, duration))

TxPlaceBid ==
  \E x \in PlaceBidInputs : Tx(placeBid(Cur, x[1], x[2], x[3], x[4]))

TxEndAuction ==
  \E x \in EndAuctionInputs :
    TxSale(endAuction(Cur, x[1], x[2], x[3], x[4]), "auction", x[2])

TxMakeOffer ==
  /\ Len(listings) + Len(auctions) + Len(offers) < MaxRecords
  /\ \E caller \in Addresses, tokenId \in Tokens, value \in Amounts,
        duration \in Durations :
       Tx(makeOffer(Cur, caller, tokenId, value, duration))

TxAcceptOffer ==
  \E x \in AcceptOfferInputs :
    TxSale(acceptOffer(Cur, x[1], x[2], x[3], x[4]), "offer", x[2])

TxCancelOffer ==
  \E x \in CancelOfferInputs : Tx(cancelOffer(Cur, x[1], x[2], x[3]))

\* ----------------------------------------------------------- environment
\* mutant: an auction is closed when its end time passes
Tick_Expires ==
  /\ now < MaxTime
  /\ now' = now + 1
  /\ auctions' = [i \in 1..Len(auctions) |->
                    [auctions[i] EXCEPT
                       !.active = @ /\ now + 1 < auctions[i].endTime]]
  /\ UNCHANGED <<paused, marketplaceFeePercentage, listings, offers,
                 totalVolume, totalSales, balance, ownerOf, tokenApproved,
                 settled, feesAccrued, view, stale>>

\* block.timestamp advances
Tick ==
  /\ now < MaxTime
  /\ now' = now + 1
  /\ UNCHANGED <<core, settled, feesAccrued, view, stale>>

\* the holder moves the token in the registry, outside the marketplace
RegistryTransferFrom ==
  \E tokenId \in Tokens : \E to \in Addresses \ {ownerOf[tokenId]} :
    /\ ownerOf' = [ownerOf EXCEPT ![tokenId] = to]
    /\ tokenApproved' = tokenApproved \ {tokenId}
    /\ stale' = stale \cup NotOwned(listings, ownerOf')
    /\ UNCHANGED <<now, paused, marketplaceFeePercentage, listings, auctions,
                   offers, totalVolume, totalSales, balance,
                   settled, feesAccrued, view>>

\* the holder approves the marketplace for the token, or revokes it
RegistryApprove ==
  \E tokenId \in Tokens, on \in BOOLEAN :
    /\ tokenApproved' = IF on THEN tokenApproved \cup {tokenId}
                        ELSE tokenApproved \ {tokenId}
    /\ UNCHANGED <<now, paused, marketplaceFeePercentage, listings, auctions,
                   offers, totalVolume, totalSales, balance, ownerOf,
                   settled, feesAccrued, view, stale>>

Init ==
  /\ now = 0
  /\ paused = FALSE
  /\ marketplaceFeePercentage = InitialFee
  /\ listings = <<>>
  /\ auctions = <<>>
  /\ offers = <<>>
  /\ totalVolume = 0
  /\ totalSales = 0
  /\ balance = 0
  /\ ownerOf \in [Tokens -> Addresses]
  /\ tokenApproved = {}
  /\ settled = {}
  /\ feesAccrued = 0
  /\ view = NoView
  /\ stale = {}

Next ==
  \/ TxPause
  \/ TxUnpause
  \/ TxSetMarketplaceFee
  \/ TxWithdrawFunds
  \/ TxListCard
  \/ TxBuyCard
  \/ TxCancelListing
  \/ TxCreateAuction
  \/ TxPlaceBid
  \/ TxEndAuction
  \/ TxMakeOffer
  \/ TxAcceptOffer
  \/ TxCancelOffer
  \/ Tick
  \/ RegistryTransferFrom
  \/ RegistryApprove

Spec == Init /\ [][Next]_vars

TypeOK ==
  /\ now \in 0..MaxTime
  /\ paused \in BOOLEAN
  /\ marketplaceFeePercentage \in 0..MaxFee
  /\ Len(listings) + Len(auctions) + Len(offers) <= MaxRecords
  /\ balance >= 0

\* ------------------------------------------------- the view functions
\* The view functions change no state, so they are not steps of Spec:
\* they are called here in states whose mappings hold up to MaxListed
\* records.  Listings are created active and cancelled at will; auctions
\* end at creation time + duration and are closed at will by the admin.
\* getActiveListings reads only listings and getActiveAuctions only
\* auctions and the clock, so one mapping is filled at a time.
ViewArgs == 0..MaxListed

ListedSeqs ==
  UNION {[1..n -> {[tokenId |-> 0, seller |-> "ann", price |-> 100,
                    active |-> a] : a \in BOOLEAN}] : n \in 0..MaxListed}

AuctionedSeqs ==
  UNION {[1..n -> {[tokenId |-> 0, seller |-> "ann", startingPrice |-> 100,
                    currentBid |-> 0, highestBidder |-> NoAddr,
                    endTime |-> e, active |-> a] :
                     a \in BOOLEAN, e \in {HOUR, 2 * HOUR}}] :
         n \in 0..MaxListed}

InitView ==
  /\ now \in 0..MaxTime
  /\ paused = FALSE
  /\ marketplaceFeePercentage = InitialFee
  /\ listings \in ListedSeqs
  /\ auctions \in AuctionedSeqs
  /\ listings = <<>> \/ auctions = <<>>
  /\ offers = <<>>
  /\ totalVolume = 0
  /\ totalSales = 0
  /\ balance = 0
  /\ ownerOf = [tokenId \in Tokens |-> "ann"]
  /\ tokenApproved = Tokens
  /\ settled = {}
  /\ feesAccrued = 0
  /\ view = NoView
  /\ stale = {}

CallGetActiveListings ==
  \E startIndex \in ViewArgs, count \in ViewArgs :
    /\ view' = [fn |-> "getActiveListings", startIndex |-> startIndex,
                count |-> count,
                ids |-> getActiveListings(Cur, startIndex, count)]
    /\ UNCHANGED <<now, core, settled, feesAccrued, stale>>

CallGetActiveAuctions ==
  \E startIndex \in ViewArgs, count \in ViewArgs :
    /\ view' = [fn |-> "getActiveAuctions", startIndex |-> startIndex,
                count |-> count,
                ids |-> getActiveAuctions(Cur, startIndex, count)]
    /\ UNCHANGED <<now, core, settled, feesAccrued, stale>>

NextView == CallGetActiveListings \/ CallGetActiveAuctions

SpecView == InitView /\ [][NextView]_vars

Unchanged(r) == StateOf(r) = StateOf(Cur) /\ r.sent = <<>> /\ r.event = ""

\* ------------------------------------------------------------------ C1
\* C1: once the active flag of a listing, an auction or an offer is false,
\* it is false in every later state: no step of any operation, nor the
\* passage of time, sets it back to true, and the record is never replaced.
C1_StaysInactive(old, new) ==
  \A id \in 1..Len(old) :
    ~old[id].active => id \in 1..Len(new) /\ ~new[id].active

Thm_C1 ==
  [][/\ C1_StaysInactive(listings, listings')
     /\ C1_StaysInactive(auctions, auctions')
     /\ C1_StaysInactive(offers, offers')]_vars

\* a listing that was sold, whose seller holds the token again and has
\* approved the marketplace again: nothing but the flag stands in the way
Witness_C1 ==
  \E id \in 1..Len(listings) :
    /\ ~listings[id].active
    /\ <<"listing", id>> \in settled
    /\ ownerOf[listings[id].tokenId] = listings[id].seller
    /\ listings[id].tokenId \in tokenApproved
    /\ ~paused

\* ------------------------------------------------------------------ C2
\* C2 as amended: after a successful buyCard on a listing, every later
\* buyCard or cancelListing on the same listing id, by any caller with any
\* payment, fails and changes no state; cancelListing fails with the
\* inactive-listing error, and so does buyCard unless the marketplace is
\* paused, when buyCard fails with the marketplace-paused error.
C2_After(buyErr) ==
  \A id \in 1..Len(listings) :
    <<"listing", id>> \in settled =>
      \A caller \in Addresses :
        /\ \A value \in Amounts, cb \in {Plain, Reject} :
             LET r == buyCard(Cur, caller, id, value, cb, cb) IN
             ~r.ok /\ r.err = buyErr /\ Unchanged(r)
        /\ LET r == cancelListing(Cur, caller, id) IN
           ~r.ok /\ r.err = "Listing is not active" /\ Unchanged(r)

Thm_C2 ==
  C2_After(IF paused THEN "Marketplace is paused" ELSE "Listing is not active")

\* C2 as claimed: the later buyCard always fails with the inactive-listing
\* error.
Cex_C2 == C2_After("Listing is not active")

\* a sold listing while the marketplace is paused
Witness_C2 ==
  \E id \in 1..Len(listings) : <<"listing", id>> \in settled /\ paused

\* ------------------------------------------------------------------ C3
\* C3: in every successful settlement (buyCard, endAuction with a winner,
\* acceptOffer) of amount A at the current fee rate R, R <= 1000, the fee
\* is floor(A*R/10000), the seller is paid A - fee, and fee + proceeds is
\* A; A = 1000 at R = 250 gives fee 25 and proceeds 975.
C3_Split(r, A, seller) ==
  r.ok /\ r.proceeds > 0 =>
    LET R == marketplaceFeePercentage IN
    /\ R \in 0..1000
    /\ r.fee * 10000 <= A * R
    /\ A * R < (r.fee + 1) * 10000
    /\ r.proceeds = A - r.fee
    /\ r.fee + r.proceeds = A
    /\ \E i \in 1..Len(r.sent) : r.sent[i] = <<seller, A - r.fee, "payout">>
    /\ (A = 1000 /\ R = 250 => r.fee = 25 /\ r.proceeds = 975)

Thm_C3 ==
  /\ \A x \in BuyCardInputs :
       C3_Split(buyCard(Cur, x[1], x[2], x[3], x[4], x[5]),
                ListingAt(Cur, x[2]).price, ListingAt(Cur, x[2]).seller)
  /\ \A x \in EndAuctionInputs :
       C3_Split(endAuction(Cur, x[1], x[2], x[3], x[4]),
                AuctionAt(Cur, x[2]).currentBid, AuctionAt(Cur, x[2]).seller)
  /\ \A x \in AcceptOfferInputs :
       C3_Split(acceptOffer(Cur, x[1], x[2], x[3], x[4]),
                OfferAt(Cur, x[2]).amount, x[1])

\* 100 was settled at 250 basis points: the fee 2.5 was floored to 2
Witness_C3 == totalSales = 1 /\ totalVolume = 100 /\ feesAccrued = 2

\* ------------------------------------------------------------------ C4
\* C4: the accepted bids of an auction are strictly increasing: the first
\* accepted bid is at least startingPrice, every later one is greater than
\* the currentBid it replaces; and when a bid replaces a previous highest
\* bid, the previous highest bidder is sent exactly the previous
\* currentBid before currentBid and highestBidder are written.
Position(trace, e) ==
  IF \E i \in 1..Len(trace) : trace[i] = e
    THEN CHOOSE i \in 1..Len(trace) :
           trace[i] = e /\ \A j \in 1..(i - 1) : trace[j] # e
    ELSE 0

C4_Increasing(old, new) ==
  \A id \in 1..Len(old) :
    new[id].currentBid # old[id].currentBid =>
      IF old[id].currentBid = 0
        THEN new[id].currentBid >= old[id].startingPrice
        ELSE new[id].currentBid > old[id].currentBid

C4_RefundFirst ==
  \A x \in PlaceBidInputs :
    LET r == placeBid(Cur, x[1], x[2], x[3], x[4])
        a == AuctionAt(Cur, x[2])
    IN r.ok =>
         /\ r.auctions[x[2]].currentBid = x[3]
         /\ r.auctions[x[2]].highestBidder = x[1]
         /\ IF a.currentBid = 0
              THEN x[3] >= a.startingPrice /\ r.sent = <<>>
              ELSE /\ x[3] > a.currentBid
                   /\ a.highestBidder # NoAddr
                   /\ r.sent[1] = <<a.highestBidder, a.currentBid, "refund">>
                   /\ \A i \in 2..Len(r.sent) : r.sent[i][3] = "withdrawal"
                   /\ Position(r.trace, <<"call", a.highestBidder>>) = 1
                   /\ Position(r.trace, <<"write", "auction.currentBid">>) > 1
                   /\ Position(r.trace, <<"write", "auction.highestBidder">>) > 1

Thm_C4 == []C4_RefundFirst /\ [][C4_Increasing(auctions, auctions')]_vars

\* a bid of 1000 is about to replace a bid of 100, which is refunded
Witness_C4 ==
  \E x \in PlaceBidInputs :
    LET r == placeBid(Cur, x[1], x[2], x[3], x[4]) IN
    /\ r.ok
    /\ AuctionAt(Cur, x[2]).currentBid = 100
    /\ r.auctions[x[2]].currentBid = 1000
    /\ r.sent = << <<AuctionAt(Cur, x[2]).highestBidder, 100, "refund">> >>

\* ------------------------------------------------------------------ C5
\* C5: when a placeBid on an auction with a highest bidder would be
\* accepted but the refund to the previous highest bidder fails, the bid
\* is rejected: currentBid and highestBidder are unchanged, the previous
\* bid stays in escrow, the new payment is not kept and no BidPlaced event
\* is emitted.
Thm_C5 ==
  \A x \in PlaceBidInputs :
    LET a == AuctionAt(Cur, x[2])
        r == placeBid(Cur, x[1], x[2], x[3], Reject)
    IN placeBid(Cur, x[1], x[2], x[3], Plain).ok /\ a.highestBidder # NoAddr =>
         /\ ~r.ok
         /\ r.err = "Failed to refund previous bidder"
         /\ r.auctions[x[2]] = a
         /\ r.balance = balance
         /\ Unchanged(r)

\* a higher bid on an auction that has a highest bidder, whose refund the
\* previous bidder refuses
Witness_C5 ==
  \E x \in PlaceBidInputs :
    /\ AuctionAt(Cur, x[2]).highestBidder # NoAddr
    /\ balance >= AuctionAt(Cur, x[2]).currentBid
    /\ placeBid(Cur, x[1], x[2], x[3], Plain).ok
    /\ ~placeBid(Cur, x[1], x[2], x[3], Reject).ok

\* --------------------------------------------------------------- runs
\* every run of every entry point from the current state:
\* <<entry point, <<caller, id or argument, msg.value>>, result>>
Runs ==
  {<<"pause", <<c, 0, 0>>, pause(Cur, c)>> : c \in Addresses}
  \cup {<<"unpause", <<c, 0, 0>>, unpause(Cur, c)>> : c \in Addresses}
  \cup {<<"setMarketplaceFee", <<c, rate, 0>>, setMarketplaceFee(Cur, c, rate)>> :
          c \in Addresses, rate \in FeeRates}
  \cup {<<"withdrawFunds", <<x[1], 0, 0>>, withdrawFunds(Cur, x[1], x[2])>> :
          x \in WithdrawFundsInputs}
  \cup {<<"listCard", <<c, nextListingId, 0>>, listCard(Cur, c, tokenId, price)>> :
          c \in Addresses, tokenId \in Tokens, price \in Amounts}
  \cup {<<"buyCard", <<x[1], x[2], x[3]>>,
          buyCard(Cur, x[1], x[2], x[3], x[4], x[5])>> : x \in BuyCardInputs}
  \cup {<<"cancelListing", <<c, id, 0>>, cancelListing(Cur, c, id)>> :
          c \in Addresses, id \in 1..nextListingId}
  \cup {<<"createAuction", <<c, nextAuctionId, 0>>,
          createAuction(Cur, c, tokenId, price, duration)>> :
          c \in Addresses, tokenId \in Tokens, price \in Amounts,
          duration \in Durations}
  \cup {<<"placeBid", <<x[1], x[2], x[3]>>,
          placeBid(Cur, x[1], x[2], x[3], x[4])>> : x \in PlaceBidInputs}
  \cup {<<"endAuction", <<x[1], x[2], 0>>,
          endAuction(Cur, x[1], x[2], x[3], x[4])>> : x \in EndAuctionInputs}
  \cup {<<"makeOffer", <<c, nextOfferId, value>>,
          makeOffer(Cur, c, tokenId, value, duration)>> :
          c \in Addresses, tokenId \in Tokens, value \in Amounts,
          duration \in Durations}
  \cup {<<"acceptOffer", <<x[1], x[2], 0>>,
          acceptOffer(Cur, x[1], x[2], x[3], x[4])>> : x \in AcceptOfferInputs}
  \cup {<<"cancelOffer", <<x[1], x[2], 0>>,
          cancelOffer(Cur, x[1], x[2], x[3])>> : x \in CancelOfferInputs}

\* ------------------------------------------------------------------ C6
\* C6: while paused, every call to listCard, buyCard, createAuction,
\* placeBid, endAuction on an auction that has a highest bidder, makeOffer
\* and acceptOffer fails with the marketplace-paused error and leaves all
\* state unchanged.
C6_Gated(run) ==
  \/ run[1] \in {"listCard", "buyCard", "createAuction", "placeBid",
                 "makeOffer", "acceptOffer"}
  \/ run[1] = "endAuction" /\ AuctionAt(Cur, run[2][2]).highestBidder # NoAddr

Cex_C6 ==
  paused =>
    \A run \in Runs :
      C6_Gated(run) =>
        ~run[3].ok /\ run[3].err = "Marketplace is paused" /\ Unchanged(run[3])

\* ------------------------------------------------------------------ C7
\* C7: while paused, cancelListing (by the seller or the admin),
\* cancelOffer (by the offer's buyer) and the admin operations
\* setMarketplaceFee, pause, unpause and withdrawFunds succeed whenever
\* their own preconditions hold; and only the admin changes paused: pause
\* and unpause fail for any other caller, and no run of another entry
\* point changes paused unless the admin, as the recipient of one of its
\* external calls, calls pause or unpause from there.
C7_StillEnabled ==
  /\ \A c \in Addresses, id \in 1..nextListingId :
       cancelListing(Cur, c, id).ok <=>
         ListingAt(Cur, id).active /\ c \in {ListingAt(Cur, id).seller, Owner}
  /\ \A c \in Addresses, id \in 1..nextOfferId :
       cancelOffer(Cur, c, id, Plain).ok <=>
         /\ OfferAt(Cur, id).active
         /\ c = OfferAt(Cur, id).buyer
         /\ balance >= OfferAt(Cur, id).amount
  /\ \A c \in Addresses, rate \in FeeRates :
       setMarketplaceFee(Cur, c, rate).ok <=> c = Owner /\ rate <= 1000
  /\ \A c \in Addresses :
       /\ pause(Cur, c).ok <=> c = Owner
       /\ unpause(Cur, c).ok <=> c = Owner
       /\ withdrawFunds(Cur, c, Plain).ok <=> c = Owner /\ balance > 0

C7_OnlyAdmin ==
  \A run \in Runs :
    run[3].paused # paused =>
      \/ run[1] \in {"pause", "unpause"} /\ run[2][1] = Owner
      \/ \E i \in 1..Len(run[3].nested) :
           run[3].nested[i] \in {<<"pause", Owner, "ok">>,
                                 <<"unpause", Owner, "ok">>}

Thm_C7 == (paused => C7_StillEnabled) /\ C7_OnlyAdmin

\* paused, with an offer in escrow that its buyer can cancel and funds the
\* admin can withdraw
Witness_C7 ==
  /\ paused
  /\ \E c \in Addresses, id \in 1..Len(offers) : cancelOffer(Cur, c, id, Plain).ok
  /\ withdrawFunds(Cur, Owner, Plain).ok
  /\ unpause(Cur, Owner).ok

\* ------------------------------------------------------------------ C8
\* C8: a successful withdrawFunds by the admin transfers to the admin
\* exactly the fees retained from settlements since the last successful
\* withdrawal; it fails with the nothing-to-withdraw error when that sum
\* is zero, fails for any other caller, and leaves the balance unchanged
\* when the transfer fails.
Cex_C8 ==
  \A c \in Addresses, cb \in WithdrawCallbacks :
    LET r == withdrawFunds(Cur, c, cb) IN
    /\ c # Owner => ~r.ok
    /\ c = Owner /\ feesAccrued = 0 => ~r.ok /\ r.err = "No funds to withdraw"
    /\ r.ok => r.sent[1] = <<Owner, feesAccrued, "withdrawal">>
    /\ ~r.ok => Unchanged(r)

\* ------------------------------------------------------------------ C9
\* C9: every operation is all-or-nothing: when a precondition fails, or
\* the asset transfer fails, or a required funds transfer fails, the state
\* after the call is the state before it (records, asset ownership,
\* balances, totalVolume, totalSales, id counters), nothing was sent and
\* no event was emitted, so the call can be tried again.
Thm_C9 == \A run \in Runs : ~run[3].ok => Unchanged(run[3])

\* an offer whose buyer refuses the refund of cancelOffer
Witness_C9 ==
  \E c \in Addresses, id \in 1..Len(offers) :
    /\ cancelOffer(Cur, c, id, Plain).ok
    /\ ~cancelOffer(Cur, c, id, Reject).ok
    /\ offers[id].active

\* ----------------------------------------------------------------- C10
\* C10: totalVolume and totalSales never decrease; a successful buyCard,
\* endAuction with a winner and acceptOffer add the settled amount (price,
\* currentBid, offer amount) to totalVolume and 1 to totalSales; every
\* other run leaves both unchanged; so totalVolume is the sum of the
\* settled amounts and totalSales the number of settlements.
C10_Amount(sale) ==
  IF sale[1] = "listing" THEN listings[sale[2]].price
  ELSE IF sale[1] = "auction" THEN auctions[sale[2]].currentBid
  ELSE offers[sale[2]].amount

RECURSIVE C10_Sum(_)
C10_Sum(sales) ==
  IF sales = {} THEN 0
  ELSE LET sale == CHOOSE x \in sales : TRUE
       IN C10_Amount(sale) + C10_Sum(sales \ {sale})

C10_Settles(run) ==
  /\ run[3].ok
  /\ \/ run[1] \in {"buyCard", "acceptOffer"}
     \/ run[1] = "endAuction" /\ AuctionAt(Cur, run[2][2]).highestBidder # NoAddr

C10_Settled(run) ==
  IF run[1] = "buyCard" THEN ListingAt(Cur, run[2][2]).price
  ELSE IF run[1] = "endAuction" THEN AuctionAt(Cur, run[2][2]).currentBid
  ELSE OfferAt(Cur, run[2][2]).amount

C10_Runs ==
  \A run \in Runs :
    IF C10_Settles(run)
      THEN /\ run[3].totalVolume = totalVolume + C10_Settled(run)
           /\ run[3].totalSales = totalSales + 1
      ELSE /\ run[3].totalVolume = totalVolume
           /\ run[3].totalSales = totalSales

C10_Totals ==
  /\ totalVolume = C10_Sum(settled)
  /\ totalSales = Cardinality(settled)

C11_Matches ==
  IF view.fn = "getActiveListings"
    THEN [i \in 1..Len(listings) |-> listings[i].active]
    ELSE [i \in 1..Len(auctions) |->
            auctions[i].active /\ now < auctions[i].endTime]

C11_Page(matches, startIndex, count) ==
  LET all == SelectSeq([i \in 1..Len(matches) |-> i], LAMBDA i : matches[i])
      last == IF Len(all) < startIndex + count THEN Len(all)
              ELSE startIndex + count
  IN [k \in 1..(IF last > startIndex THEN last - startIndex ELSE 0) |->
        all[startIndex + k]]

Thm_C11 ==
  view.fn # "none" =>
    /\ view.ids = C11_Page(C11_Matches, view.startIndex, view.count)
    /\ Len(view.ids) <= view.count
    /\ \A k \in 1..(Len(view.ids) - 1) : view.ids[k] < view.ids[k + 1]
    /\ \A k \in 1..Len(view.ids) :
         view.ids[k] \in 1..Len(C11_Matches) /\ C11_Matches[view.ids[k]]
    /\ (view.count = 0 => view.ids = <<>>)

\* three listings, the second cancelled: the page of one id after the
\* first active one is the third listing, with nothing after it
Witness_C11 ==
  /\ Len(listings) = 3
  /\ listings[1].active /\ ~listings[2].active /\ listings[3].active
  /\ view = [fn |-> "getActiveListings", startIndex |-> 1, count |-> 3,
             ids |-> <<3>>]

\* ----------------------------------------------------------------- C12
\* C12: the fee rate is between 0 and 1000 basis points in every reachable
\* state; setMarketplaceFee(rate) by the admin fails with the fee-too-high
\* error and leaves the rate unchanged when rate > 1000 (1001 fails, 1000
\* succeeds); it fails for every other caller; and no run of another entry
\* point changes the rate, unless the admin, as the recipient of one of
\* its external calls, calls setMarketplaceFee from there.
C12_SetFee ==
  \A c \in Addresses, rate \in FeeRates :
    LET r == setMarketplaceFee(Cur, c, rate) IN
    /\ c # Owner => ~r.ok /\ Unchanged(r)
    /\ c = Owner /\ rate > 1000 =>
         ~r.ok /\ r.err = "Fee cannot exceed 10%" /\ Unchanged(r)
    /\ c = Owner /\ rate <= 1000 =>
         r.ok /\ r.marketplaceFeePercentage = rate

C12_OnlySetFee ==
  \A run \in Runs :
    run[3].marketplaceFeePercentage # marketplaceFeePercentage =>
      \/ run[1] = "setMarketplaceFee" /\ run[2][1] = Owner
      \/ \E i \in 1..Len(run[3].nested) :
           run[3].nested[i] = <<"setMarketplaceFee", Owner, "ok">>

Thm_C12 ==
  /\ marketplaceFeePercentage \in 0..1000
  /\ C12_SetFee
  /\ C12_OnlySetFee
  /\ setMarketplaceFee(Cur, Owner, 1001).marketplaceFeePercentage
       = marketplaceFeePercentage
  /\ setMarketplaceFee(Cur, Owner, 1000).marketplaceFeePercentage = 1000

\* the rate has been set to the limit, and 1001 is refused
Witness_C12 ==
  /\ marketplaceFeePercentage = 1000
  /\ ~setMarketplaceFee(Cur, Owner, 1001).ok

\* ----------------------------------------------------------------- C13
\* C13: cancelOffer on an active offer succeeds only for the offer's buyer,
\* also once the offer has expired; on success the offer is inactive, the
\* buyer is sent exactly the escrowed amount with no fee deducted, and
\* asset ownership, totalVolume and totalSales are unchanged; any other
\* caller fails with the not-authorized error and changes nothing.
C13_Cancel(r, caller, id) ==
  LET offer == OfferAt(Cur, id) IN
  /\ r.ok => caller = offer.buyer
  /\ caller # offer.buyer =>
       ~r.ok /\ r.err = "Not the offer creator" /\ Unchanged(r)
  /\ r.ok =>
       /\ ~r.offers[id].active
       /\ r.offers[id] = [offer EXCEPT !.active = FALSE]
       /\ r.sent[1] = <<offer.buyer, offer.amount, "refund">>
       /\ \A i \in 2..Len(r.sent) : r.sent[i][3] = "withdrawal"
       /\ Len(r.sent) = 1 => r.balance = balance - offer.amount
       /\ r.fee = 0
       /\ r.ownerOf = ownerOf
       /\ r.totalVolume = totalVolume
       /\ r.totalSales = totalSales

Thm_C13 ==
  /\ \A x \in CancelOfferInputs :
       OfferAt(Cur, x[2]).active =>
         C13_Cancel(cancelOffer(Cur, x[1], x[2], x[3]), x[1], x[2])
  /\ \A id \in 1..Len(offers) :
       offers[id].active /\ balance >= offers[id].amount =>
         cancelOffer(Cur, offers[id].buyer, id, Plain).ok

\* an offer of 100 past its expiration, still in escrow, which its buyer
\* can cancel
Witness_C13 ==
  \E id \in 1..Len(offers) :
    /\ offers[id].active
    /\ offers[id].amount = 100
    /\ now >= offers[id].expiration
    /\ cancelOffer(Cur, offers[id].buyer, id, Plain).ok
    /\ cancelOffer(Cur, offers[id].buyer, id, Plain).sent
         = << <<offers[id].buyer, 100, "refund">> >>

\* ----------------------------------------------------------------- C14
\* C14: endAuction on an active auction fails unless now >= endTime or the
\* caller is the admin; when it succeeds on an auction with no bids it
\* marks the auction inactive, moves neither the asset nor any funds and
\* leaves the stats as they were.
C14_End(r, caller, id) ==
  LET auction == AuctionAt(Cur, id)
      endable == now >= auction.endTime \/ caller = Owner
  IN /\ ~endable =>
          /\ ~r.ok
          /\ r.err = "Auction not yet ended or not admin"
          /\ Unchanged(r)
     /\ auction.highestBidder = NoAddr =>
          /\ r.ok <=> endable
          /\ r.ok =>
               /\ r.auctions = [auctions EXCEPT ![id].active = FALSE]
               /\ r.event = "AuctionEnded"
               /\ r.sent = <<>>
               /\ r.trace = << <<"write", "auction.active">> >>
               /\ r.balance = balance
               /\ r.ownerOf = ownerOf
               /\ r.tokenApproved = tokenApproved
               /\ r.totalVolume = totalVolume
               /\ r.totalSales = totalSales

Thm_C14 ==
  \A x \in EndAuctionInputs :
    AuctionAt(Cur, x[2]).active =>
      C14_End(endAuction(Cur, x[1], x[2], x[3], x[4]), x[1], x[2])

\* an auction without bids before its end time, which the admin can end
\* and another caller cannot
Witness_C14 ==
  \E id \in 1..Len(auctions) :
    /\ auctions[id].active
    /\ auctions[id].highestBidder = NoAddr
    /\ now < auctions[id].endTime
    /\ endAuction(Cur, Owner, id, Plain, Plain).ok
    /\ ~endAuction(Cur, "ann", id, Plain, Plain).ok

\* ----------------------------------------------------------------- C15
\* C15: every exercising operation validates the registry's current owner
\* at the time of the call: buyCard, placeBid and endAuction with a winner
\* succeed only if the current owner of the asset is the stored seller,
\* acceptOffer only if the caller is the current owner; when the owner
\* changed outside the marketplace the operation fails and changes no
\* state.
C15_Exercise(r, holder, tokenId) ==
  /\ r.ok => ownerOf[tokenId] = holder
  /\ ownerOf[tokenId] # holder => ~r.ok /\ Unchanged(r)

Thm_C15 ==
  /\ \A x \in BuyCardInputs :
       LET listing == ListingAt(Cur, x[2])
           r == buyCard(Cur, x[1], x[2], x[3], x[4], x[5])
       IN listing.active =>
            /\ C15_Exercise(r, listing.seller, listing.tokenId)
            /\ ~paused /\ x[3] = listing.price
                 /\ ownerOf[listing.tokenId] # listing.seller =>
                 r.err = "Seller no longer owns this card"
  /\ \A x \in PlaceBidInputs :
       LET auction == AuctionAt(Cur, x[2])
           r == placeBid(Cur, x[1], x[2], x[3], x[4])
       IN auction.active =>
            /\ C15_Exercise(r, auction.seller, auction.tokenId)
            /\ ~paused /\ now < auction.endTime /\ x[1] # auction.seller
                 /\ ownerOf[auction.tokenId] # auction.seller =>
                 r.err = "Seller no longer owns this card"
  /\ \A x \in EndAuctionInputs :
       LET auction == AuctionAt(Cur, x[2])
           r == endAuction(Cur, x[1], x[2], x[3], x[4])
       IN auction.active /\ auction.highestBidder # NoAddr =>
            C15_Exercise(r, auction.seller, auction.tokenId)
  /\ \A x \in AcceptOfferInputs :
       LET offer == OfferAt(Cur, x[2])
           r == acceptOffer(Cur, x[1], x[2], x[3], x[4])
       IN offer.active =>
            /\ C15_Exercise(r, x[1], offer.tokenId)
            /\ ~paused /\ now < offer.expiration
                 /\ ownerOf[offer.tokenId] # x[1] =>
                 r.err = "Not the card owner"

\* an auction with a highest bidder whose seller has moved the token away:
\* neither a higher bid nor the admin's endAuction goes through
Witness_C15 ==
  \E id \in 1..Len(auctions) :
    /\ auctions[id].active
    /\ auctions[id].currentBid = 100
    /\ now < auctions[id].endTime
    /\ ~paused
    /\ ownerOf[auctions[id].tokenId] # auctions[id].seller
    /\ \E c \in Addresses \ {auctions[id].seller} :
         placeBid(Cur, c, id, 1000, Plain).err = "Seller no longer owns this card"
    /\ ~endAuction(Cur, Owner, id, Plain, Plain).ok

\* ----------------------------------------------------------------- C16
\* C16 as amended: expiry is enforced only when the record is used:
\* placeBid on an active auction at now >= endTime fails with the
\* auction-ended error and acceptOffer on an active offer at
\* now >= expiration fails with the offer-expired error, or, while the
\* marketplace is paused, both fail with the marketplace-paused error; in
\* every case the record stays active.  The passage of time changes no
\* active flag: an expired auction or offer stays active until a run of
\* endAuction or cancelOffer clears the flag.
C16_AtUse(bidErr, acceptErr) ==
  /\ \A x \in PlaceBidInputs :
       LET auction == AuctionAt(Cur, x[2])
           r == placeBid(Cur, x[1], x[2], x[3], x[4])
       IN auction.active /\ now >= auction.endTime =>
            ~r.ok /\ r.err = bidErr /\ Unchanged(r) /\ r.auctions[x[2]].active
  /\ \A x \in AcceptOfferInputs :
       LET offer == OfferAt(Cur, x[2])
           r == acceptOffer(Cur, x[1], x[2], x[3], x[4])
       IN offer.active /\ now >= offer.expiration =>
            ~r.ok /\ r.err = acceptErr /\ Unchanged(r) /\ r.offers[x[2]].active

C16_UntilInvoked ==
  \A run \in Runs :
    /\ \A id \in 1..Len(auctions) :
         /\ auctions[id].active /\ now >= auctions[id].endTime
         /\ ~run[3].auctions[id].active
         => run[1] = "endAuction" /\ run[2][2] = id
    /\ \A id \in 1..Len(offers) :
         /\ offers[id].active /\ now >= offers[id].expiration
         /\ ~run[3].offers[id].active
         => run[1] = "cancelOffer" /\ run[2][2] = id

C16_TimeAlone ==
  now' # now =>
    /\ listings' = listings
    /\ auctions' = auctions
    /\ offers' = offers

RECURSIVE C17_Withdrawn(_)
C17_Withdrawn(sent) ==
  IF sent = <<>> THEN 0
  ELSE (IF Head(sent)[3] = "withdrawal" THEN Head(sent)[2] ELSE 0)
       + C17_Withdrawn(Tail(sent))

C17_Payouts(r) == {i \in 1..Len(r.sent) : r.sent[i][3] = "payout"}

\* `held` is what the marketplace holds for the trade once msg.value is in
C17_Swap(r, active, seller, buyer, tokenId, A, held) ==
  r.ok =>
    LET fee == Fee(A, marketplaceFeePercentage) IN
    /\ ~active
    /\ ownerOf[tokenId] = seller
    /\ r.ownerOf[tokenId] = buyer
    /\ Cardinality(C17_Payouts(r)) = 1
    /\ \A i \in C17_Payouts(r) : r.sent[i] = <<seller, A - fee, "payout">>
    /\ \A i \in 1..Len(r.sent) : r.sent[i][3] \in {"payout", "withdrawal"}
    /\ r.balance + C17_Withdrawn(r.sent) = held - (A - fee)
    /\ r.fee = fee

C17_Moved(r) == \E i \in 1..Len(r.trace) : r.trace[i] = <<"call", "registry">>

Thm_C17 ==
  /\ \A x \in BuyCardInputs :
       LET listing == ListingAt(Cur, x[2])
           r == buyCard(Cur, x[1], x[2], x[3], x[4], x[5])
       IN C17_Swap(r, r.listings[x[2]].active, listing.seller, x[1],
                   listing.tokenId, listing.price, balance + x[3])
  /\ \A x \in EndAuctionInputs :
       LET auction == AuctionAt(Cur, x[2])
           r == endAuction(Cur, x[1], x[2], x[3], x[4])
       IN auction.highestBidder # NoAddr =>
            C17_Swap(r, r.auctions[x[2]].active, auction.seller,
                     auction.highestBidder, auction.tokenId,
                     auction.currentBid, balance)
  /\ \A x \in AcceptOfferInputs :
       LET offer == OfferAt(Cur, x[2])
           r == acceptOffer(Cur, x[1], x[2], x[3], x[4])
       IN C17_Swap(r, r.offers[x[2]].active, x[1], offer.buyer,
                   offer.tokenId, offer.amount, balance)
  /\ \A run \in Runs : C17_Moved(run[3]) <=> C17_Payouts(run[3]) # {}

\* an auction won with a bid of 1000: endAuction moves the token to the
\* bidder and pays the seller 975 of the 1000 in escrow
Witness_C17 ==
  \E x \in EndAuctionInputs :
    LET auction == AuctionAt(Cur, x[2])
        r == endAuction(Cur, x[1], x[2], x[3], x[4])
    IN /\ r.ok
       /\ auction.currentBid = 1000
       /\ marketplaceFeePercentage = 250
       /\ ownerOf[auction.tokenId] = auction.seller
       /\ r.ownerOf[auction.tokenId] = auction.highestBidder
       /\ auction.highestBidder # auction.seller
       /\ r.sent = << <<auction.seller, 975, "payout">> >>
       /\ r.balance = balance - 975

\* ----------------------------------------------------------------- C18
\* C18: while an entry point is inside an external transfer it made (a
\* payout, a refund, a withdrawal, or the receiver hook of the asset
\* transfer), every nested call of the recipient into a state-mutating
\* entry point, the admin functions included, is rejected by the
\* reentrancy guard.
Cex_C18 ==
  \A run \in Runs :
    \A i \in 1..Len(run[3].nested) :
      run[3].nested[i][3] = "ReentrancyGuardReentrantCall"

\* ----------------------------------------------------------------- C19
\* C19: in every entry point all the writes to the marketplace's own state
\* (active flags, currentBid, highestBidder, totalVolume, totalSales) come
\* before its first external call: nothing is written once an external
\* call has been made.  (Runs whose recipients call back into the
\* marketplace are left aside: the writes of a nested call are not the
\* entry point's own.)
Cex_C19 ==
  \A run \in Runs :
    run[3].ok /\ run[3].nested = <<>> =>
      \A i \in 1..Len(run[3].trace), j \in 1..Len(run[3].trace) :
        run[3].trace[i][1] = "call" /\ run[3].trace[j][1] = "write" => j < i

\* ----------------------------------------------------------------- C20
\* C20: in every reachable state, for every auction ever created:
\* startingPrice > 0; highestBidder is set if and only if currentBid > 0;
\* and currentBid is 0 or at least startingPrice.
Thm_C20 ==
  \A id \in 1..Len(auctions) :
    /\ auctions[id].startingPrice > 0
    /\ auctions[id].highestBidder # NoAddr <=> auctions[id].currentBid > 0
    /\ auctions[id].currentBid = 0
         \/ auctions[id].currentBid >= auctions[id].startingPrice

\* an auction that started at 100, whose highest bid of 1000 is in escrow
Witness_C20 ==
  \E id \in 1..Len(auctions) :
    /\ auctions[id].startingPrice = 100
    /\ auctions[id].currentBid = 1000
    /\ auctions[id].highestBidder # NoAddr
    /\ balance = 1000

\* ----------------------------------------------------------------- C21
\* C21: in every reachable state, whatever operations came before,
\* withdrawFunds included, the marketplace holds at least the sum of the
\* amounts of the active offers and the currentBid of the active auctions,
\* so that every refund and payout the records promise can be paid.
RECURSIVE C21_OffersHeld(_)
C21_OffersHeld(os) ==
  IF os = <<>> THEN 0
  ELSE (IF Head(os).active THEN Head(os).amount ELSE 0)
       + C21_OffersHeld(Tail(os))

RECURSIVE C21_BidsHeld(_)
C21_BidsHeld(as) ==
  IF as = <<>> THEN 0
  ELSE (IF Head(as).active THEN Head(as).currentBid ELSE 0)
       + C21_BidsHeld(Tail(as))

Cex_C21 == balance >= C21_OffersHeld(offers) + C21_BidsHeld(auctions)

\* ----------------------------------------------------------------- C22
\* C22: no bid is locked for ever: for every auction that has a highest
\* bidder, from every reachable state some sequence of marketplace
\* operations takes the escrowed currentBid out of escrow, refunded to the
\* bidder or paid out in a settlement that gives the bidder the asset;
\* also when the seller has moved the asset away in the registry, or
\* revoked the approval, after the last bid and never regains it.
\*
\* The bid leaves escrow in a run of endAuction or of placeBid on the
\* auction, and in no other.  endAuction by the admin is gated neither by
\* the pause flag nor by the clock, and placeBid only needs the
\* marketplace unpaused; so, with the escrow still held and every
\* recipient accepting, a state in which neither goes through is one that
\* no marketplace operation leads out of: they change neither the owner
\* nor the approval of the asset unless the seller regains it.
C22_Releases(id) ==
  \/ endAuction(Cur, Owner, id, Plain, Plain).ok
  \/ \E c \in Addresses :
       placeBid([Cur EXCEPT !.paused = FALSE], c, id,
                auctions[id].currentBid + 1, Plain).ok

C22_Locked(id) ==
  /\ id \in 1..Len(auctions)
  /\ auctions[id].active
  /\ auctions[id].highestBidder # NoAddr
  /\ ownerOf[auctions[id].tokenId] # auctions[id].seller

\* once the seller has lost the asset the bid stays where it is, as long
\* as the seller does not own the asset again
C22_StaysLocked ==
  [][\A id \in 1..Len(auctions) :
       C22_Locked(id) /\ ownerOf'[auctions[id].tokenId] # auctions[id].seller
         => auctions'[id] = auctions[id]]_vars

Cex_C22 ==
  \A id \in 1..Len(auctions) :
    /\ auctions[id].active
    /\ auctions[id].highestBidder # NoAddr
    /\ balance >= auctions[id].currentBid
    => C22_Releases(id)


\* C23  No stale listing revival: once the registry owner of a listed asset
\* has differed from the listing's stored seller at some moment after the
\* listing was created, no buyCard on that listing succeeds afterwards, not
\* even when the seller owns the asset again.  `stale` records the listings
\* for which such a moment was seen, at the end of a transaction or after a
\* transfer in the registry.
Cex_C23 ==
  \A id \in stale : \A x \in BuyCardInputs :
    x[2] = id => ~buyCard(Cur, x[1], x[2], x[3], x[4], x[5]).ok

============================================================================
